---- MODULE Spec2Model ----
(***************************************************************************)
(* Model of gen-test-file.py: the generator of the test.btdb fixture.      *)
(* Each loop iteration draws a random size and payload, encodes the record *)
(* hash || 8-byte little-endian length || payload, and appends it to the   *)
(* file opened with mode 'xb'.                                             *)
(***************************************************************************)
EXTENDS Integers, Sequences, FiniteSets, TLC

\* ---- program constants ----
DigestSize == 30
LenSize == 8
SizeReadLen == 2
Radix == 256

\* ---- bounds of the model ----
\* number of iterations of the generation loop (range(100_000) in the source)
N == 2

\* 2-byte patterns the entropy source repeats to fill a read
Patterns == { <<0, 0>>, <<2, 1>>, <<255, 255>> }
\* contents a file already present at the target path may hold
OldContents == { <<>>, <<1, 2, 3>> }

VARIABLES
    pc,         \* position of the program
    file,       \* the file at path 'test.btdb': [exists, data]
    file0,      \* the file at that path when the program started
    fp,         \* state of the file object fp: "none" or "open"; "closed"
                \* would be its state after a close, which no statement does
    range_next, \* next value the iterator of range(N) yields
    i,          \* loop variable (-1 while unbound)
    total,      \* running total of bytes written (-1 while unbound)
    size,       \* value returned by random_size()
    sizeBytes,  \* the 2 bytes the entropy source returned for the size
    d, h, s,    \* locals of random_entry
    buf,        \* the encoded record
    stdout,     \* lines printed
    reads,      \* lengths requested from the entropy source, in order
    payloads,   \* payloads of the records appended so far, in order
    exc         \* uncaught exception that ended the run ("none" if none)

vars == << pc, file, file0, fp, range_next, i, total, size, sizeBytes, d, h, s, buf,
           stdout, reads, payloads, exc >>

\* ---- pure functions ----

\* variant: the bytes are read big-endian
RECURSIVE from_bytes_big(_)
from_bytes_big(bs) ==
    IF bs = <<>> THEN 0
    ELSE Head(bs) * (IF Len(bs) = 2 THEN 256 ELSE 1) + from_bytes_big(Tail(bs))

\* int.from_bytes(bs, 'little')
RECURSIVE from_bytes(_)
from_bytes(bs) ==
    IF bs = <<>> THEN 0 ELSE Head(bs) + Radix * from_bytes(Tail(bs))

RECURSIVE ShiftRight(_, _)
ShiftRight(n, k) == IF k = 0 THEN n ELSE ShiftRight(n \div Radix, k - 1)

\* variant: the length is written big-endian
to_bytes_big(n, len) == [ k \in 1..len |-> ShiftRight(n, len - k) % 256 ]

\* n.to_bytes(len, 'little')
to_bytes(n, len) == [ k \in 1..len |-> ShiftRight(n, k - 1) % Radix ]

\* blake2b(data, digest_size=30).digest(): a deterministic function of data
\* with a 30-byte result; the digest mixes the length and sampled bytes
hash_data(data) ==
    LET n == Len(data)
        Sample(k) == IF n = 0 THEN 0 ELSE data[((k * 7919) % n) + 1]
        first == Sample(0)
    IN  [ k \in 1..DigestSize |->
            (n * 31 + (n \div Radix) + Sample(k) * 17 + k * 101 + first + 13)
               % Radix ]

\* bytes.hex()
HexDigits == << "0", "1", "2", "3", "4", "5", "6", "7",
                "8", "9", "a", "b", "c", "d", "e", "f" >>

hex(bs) ==
    [ k \in 1..(2 * Len(bs)) |->
        IF k % 2 = 1 THEN HexDigits[(bs[(k + 1) \div 2] \div 16) + 1]
                     ELSE HexDigits[(bs[k \div 2] % 16) + 1] ]

\* b''.join(parts)
RECURSIVE join(_)
join(parts) == IF parts = <<>> THEN <<>> ELSE Head(parts) \o join(Tail(parts))

\* values getrandom(n) may return
getrandom(n) ==
    { [ k \in 1..n |-> IF k % 2 = 1 THEN p[1] ELSE p[2] ] : p \in Patterns }

\* lengths of the prefix of buf a failing write may leave in the file
PartialLens(b) == { 0, 1, DigestSize + LenSize - 1, Len(b) - 1 }

\* ---- initial state ----
Init ==
    /\ pc = "open"
    /\ file \in ({ [exists |-> FALSE, data |-> <<>>] }
                 \cup { [exists |-> TRUE, data |-> c] : c \in OldContents })
    /\ file0 = file
    /\ fp = "none"
    /\ range_next = 0
    /\ i = -1
    /\ total = -1
    /\ size = -1
    /\ sizeBytes = <<>>
    /\ d = <<>>
    /\ h = <<>>
    /\ s = <<>>
    /\ buf = <<>>
    /\ stdout = <<>>
    /\ reads = <<>>
    /\ payloads = <<>>
    /\ exc = "none"

\* ---- actions ----

\* fp = open('test.btdb', 'xb'): the path is free, the file is created
OpenCreate ==
    /\ pc = "open"
    /\ ~file.exists
    /\ file' = [exists |-> TRUE, data |-> <<>>]
    /\ fp' = "open"
    /\ pc' = "total"
    /\ UNCHANGED << file0, range_next, i, total, size, sizeBytes, d, h, s, buf,
                    stdout, reads, payloads, exc >>

\* variant: the file is opened with mode 'wb', which truncates it
OpenTruncate ==
    /\ pc = "open"
    /\ file.exists
    /\ file' = [exists |-> TRUE, data |-> <<>>]
    /\ fp' = "open"
    /\ pc' = "total"
    /\ UNCHANGED << file0, range_next, i, total, size, sizeBytes, d, h, s, buf,
                    stdout, reads, payloads, exc >>

\* fp = open('test.btdb', 'xb'): the path exists, FileExistsError
OpenExists ==
    /\ pc = "open"
    /\ file.exists
    /\ exc' = "FileExistsError"
    /\ pc' = "aborted"
    /\ UNCHANGED << file0, file, fp, range_next, i, total, size, sizeBytes, d, h, s,
                    buf, stdout, reads, payloads >>

\* total = 0
InitTotal ==
    /\ pc = "total"
    /\ total' = 0
    /\ pc' = "for"
    /\ UNCHANGED << file0, file, fp, range_next, i, size, sizeBytes, d, h, s, buf,
                    stdout, reads, payloads, exc >>

\* for i in range(N): the iterator yields the next value
ForNext ==
    /\ pc = "for"
    /\ range_next < N
    /\ i' = range_next
    /\ range_next' = range_next + 1
    /\ pc' = "random_size"
    /\ UNCHANGED << file0, file, fp, total, size, sizeBytes, d, h, s, buf, stdout,
                    reads, payloads, exc >>

\* variant: the loop may stop one iteration early
ForExitEarly ==
    /\ pc = "for"
    /\ range_next >= N - 1
    /\ pc' = "print_total"
    /\ UNCHANGED << file0, file, fp, range_next, i, total, size, sizeBytes, d,
                    h, s, buf, stdout, reads, payloads, exc >>

\* for i in range(N): the iterator is exhausted
ForExit ==
    /\ pc = "for"
    /\ range_next >= N
    /\ pc' = "print_total"
    /\ UNCHANGED << file0, file, fp, range_next, i, total, size, sizeBytes, d, h, s,
                    buf, stdout, reads, payloads, exc >>

\* random_size(): int.from_bytes(getrandom(2), 'little')
RandomSize ==
    /\ pc = "random_size"
    /\ \E bs \in getrandom(SizeReadLen) :
          /\ sizeBytes' = bs
          /\ size' = from_bytes(bs)
    /\ reads' = Append(reads, SizeReadLen)
    /\ pc' = "random_data"
    /\ UNCHANGED << file0, file, fp, range_next, i, total, d, h, s, buf, stdout,
                    payloads, exc >>

\* random_data(): d = getrandom(random_size())
RandomData ==
    /\ pc = "random_data"
    /\ \E bs \in getrandom(size) : d' = bs
    /\ reads' = Append(reads, size)
    /\ pc' = "hash_data"
    /\ UNCHANGED << file0, file, fp, range_next, i, total, size, sizeBytes, h, s, buf,
                    stdout, payloads, exc >>

\* variant: the failure is caught and the loop goes on
EntropyFailSwallowed ==
    /\ pc \in { "random_size", "random_data" }
    /\ exc' = "OSError_getrandom"
    /\ pc' = "for"
    /\ UNCHANGED << file0, file, fp, range_next, i, total, size, sizeBytes, d,
                    h, s, buf, stdout, reads, payloads >>

\* getrandom raises OSError in either read; nothing catches it
EntropyFail ==
    /\ pc \in { "random_size", "random_data" }
    /\ exc' = "OSError_getrandom"
    /\ pc' = "aborted"
    /\ UNCHANGED << file0, file, fp, range_next, i, total, size, sizeBytes, d, h, s,
                    buf, stdout, reads, payloads >>

\* h = hash_data(d)
HashData ==
    /\ pc = "hash_data"
    /\ h' = hash_data(d)
    /\ pc' = "to_bytes"
    /\ UNCHANGED << file0, file, fp, range_next, i, total, size, sizeBytes, d, s, buf,
                    stdout, reads, payloads, exc >>

\* s = len(d).to_bytes(8, 'little')
LenToBytes ==
    /\ pc = "to_bytes"
    /\ s' = to_bytes(Len(d), LenSize)
    /\ pc' = "print_entry"
    /\ UNCHANGED << file0, file, fp, range_next, i, total, size, sizeBytes, d, h, buf,
                    stdout, reads, payloads, exc >>

\* print(h.hex(), len(d))
PrintEntry ==
    /\ pc = "print_entry"
    /\ stdout' = Append(stdout, << hex(h), Len(d) >>)
    /\ pc' = "join"
    /\ UNCHANGED << file0, file, fp, range_next, i, total, size, sizeBytes, d, h, s,
                    buf, reads, payloads, exc >>

\* variant: the fields are joined with a zero byte between them
JoinDelimited ==
    /\ pc = "join"
    /\ buf' = join(<< h, << 0 >>, s, << 0 >>, d >>)
    /\ pc' = "write"
    /\ UNCHANGED << file0, file, fp, range_next, i, total, size, sizeBytes, d,
                    h, s, stdout, reads, payloads, exc >>

\* buf = random_entry(): return b''.join([h, s, d])
Join ==
    /\ pc = "join"
    /\ buf' = join(<< h, s, d >>)
    /\ pc' = "write"
    /\ UNCHANGED << file0, file, fp, range_next, i, total, size, sizeBytes, d, h, s,
                    stdout, reads, payloads, exc >>

\* variant: only the payload is written
WritePayloadOnly ==
    /\ pc = "write"
    /\ file' = [file EXCEPT !.data = @ \o d]
    /\ total' = total + Len(d)
    /\ payloads' = Append(payloads, d)
    /\ pc' = "for"
    /\ UNCHANGED << file0, fp, range_next, i, size, sizeBytes, d, h, s, buf,
                    stdout, reads, exc >>

\* variant: the counter adds the payload length instead of the bytes written
WriteCountsPayload ==
    /\ pc = "write"
    /\ file' = [file EXCEPT !.data = @ \o buf]
    /\ total' = total + Len(d)
    /\ payloads' = Append(payloads, d)
    /\ pc' = "for"
    /\ UNCHANGED << file0, fp, range_next, i, size, sizeBytes, d, h, s, buf,
                    stdout, reads, exc >>

\* total += fp.write(buf)
Write ==
    /\ pc = "write"
    /\ file' = [file EXCEPT !.data = @ \o buf]
    /\ total' = total + Len(buf)
    /\ payloads' = Append(payloads, d)
    /\ pc' = "for"
    /\ UNCHANGED << file0, fp, range_next, i, size, sizeBytes, d, h, s, buf, stdout,
                    reads, exc >>

\* variant: the failure handler empties the file
WriteFailRollback ==
    /\ pc = "write"
    /\ file' = [file EXCEPT !.data = <<>>]
    /\ exc' = "OSError_write"
    /\ pc' = "aborted"
    /\ UNCHANGED << file0, fp, range_next, i, total, size, sizeBytes, d, h, s,
                    buf, stdout, reads, payloads >>

\* fp.write(buf) raises OSError after a prefix of buf reached the file
WriteFail ==
    /\ pc = "write"
    /\ \E n \in PartialLens(buf) :
          file' = [file EXCEPT !.data = @ \o SubSeq(buf, 1, n)]
    /\ exc' = "OSError_write"
    /\ pc' = "aborted"
    /\ UNCHANGED << file0, fp, range_next, i, total, size, sizeBytes, d, h, s, buf,
                    stdout, reads, payloads >>

\* print(total)
PrintTotal ==
    /\ pc = "print_total"
    /\ stdout' = Append(stdout, << total >>)
    /\ pc' = "done"
    /\ UNCHANGED << file0, file, fp, range_next, i, total, size, sizeBytes, d, h, s,
                    buf, reads, payloads, exc >>

Next ==
    \/ OpenCreate
    \/ OpenExists
    \/ InitTotal
    \/ ForNext
    \/ ForExit
    \/ RandomSize
    \/ RandomData
    \/ EntropyFail
    \/ HashData
    \/ LenToBytes
    \/ PrintEntry
    \/ Join
    \/ Write
    \/ WriteFail
    \/ PrintTotal

Spec == Init /\ [][Next]_vars

\* every step of the program is taken while one is enabled
FairSpec == Spec /\ WF_vars(Next)

\* ---- the sequential reader of the file format ----

\* little-endian value of a length field; a field with a nonzero byte above
\* the third stands for a length beyond any file of the model
ReadLE(bs) ==
    IF \E k \in 4..Len(bs) : bs[k] # 0
    THEN 256 * 65536
    ELSE (IF Len(bs) >= 1 THEN bs[1] ELSE 0)
         + (IF Len(bs) >= 2 THEN 256 * bs[2] ELSE 0)
         + (IF Len(bs) >= 3 THEN 65536 * bs[3] ELSE 0)

\* read 30 bytes of digest, 8 bytes of length, then `length` bytes of payload
ParseRecord(bytes) ==
    IF Len(bytes) < 38
    THEN [ok |-> FALSE, digest |-> <<>>, length |-> 0, payload |-> <<>>,
          rest |-> bytes]
    ELSE LET n == ReadLE(SubSeq(bytes, 31, 38)) IN
         IF Len(bytes) < 38 + n
         THEN [ok |-> FALSE, digest |-> <<>>, length |-> n, payload |-> <<>>,
               rest |-> bytes]
         ELSE [ok |-> TRUE,
               digest |-> SubSeq(bytes, 1, 30),
               length |-> n,
               payload |-> SubSeq(bytes, 39, 38 + n),
               rest |-> SubSeq(bytes, 39 + n, Len(bytes))]

\* repeat until end of file: the triples read and the bytes left unparsed
RECURSIVE ParseAll(_)
ParseAll(bytes) ==
    IF bytes = <<>> THEN [records |-> <<>>, leftover |-> <<>>]
    ELSE LET r == ParseRecord(bytes) IN
         IF ~r.ok THEN [records |-> <<>>, leftover |-> bytes]
         ELSE LET t == ParseAll(r.rest) IN
              [records |-> << << r.digest, r.length, r.payload >> >> \o t.records,
               leftover |-> t.leftover]

\* the record the format prescribes for payload p
RecordOf(p) ==
    hash_data(p)
      \o << Len(p) % 256, (Len(p) \div 256) % 256, (Len(p) \div 65536) % 256,
            0, 0, 0, 0, 0 >>
      \o p

RECURSIVE ConcatRecords(_)
ConcatRecords(ps) ==
    IF ps = <<>> THEN <<>> ELSE RecordOf(Head(ps)) \o ConcatRecords(Tail(ps))

RECURSIVE SumSizes(_)
SumSizes(ps) ==
    IF ps = <<>> THEN 0 ELSE 38 + Len(Head(ps)) + SumSizes(Tail(ps))

Triples(ps) == [ k \in 1..Len(ps) |-> << hash_data(ps[k]), Len(ps[k]), ps[k] >> ]

\* ---- claims ----

\* C1: the buffer returned by the record encoder for payload d is exactly
\* Hash(d) || LE8(len(d)) || d: its first 30 bytes are the digest of d, the
\* next 8 bytes decode little-endian to len(d), the rest is d, and its size
\* is 38 + len(d).
C1_EncodedBuffer ==
    pc = "write" =>
        /\ Len(buf) = 38 + Len(d)
        /\ SubSeq(buf, 1, 30) = hash_data(d)
        /\ ReadLE(SubSeq(buf, 31, 38)) = Len(d)
        /\ SubSeq(buf, 39, Len(buf)) = d
        /\ buf = RecordOf(d)

C1_Witness ==
    /\ pc = "write"
    /\ Len(d) = 258
    /\ buf = RecordOf(d)

C3_TotalIsSum ==
    /\ total # -1 => total = SumSizes(payloads)
    /\ pc = "done" =>
          /\ Len(payloads) = N
          /\ stdout[Len(stdout)] = << SumSizes(payloads) >>
          /\ Len(file.data) = SumSizes(payloads)

C3_Witness ==
    /\ pc = "done"
    /\ Len(payloads[1]) = 258
    /\ total = 296 + SumSizes(Tail(payloads))
    /\ Len(file.data) = total
    /\ stdout[Len(stdout)] = << total >>

\* C4: every payload is produced by two entropy reads, first 2 bytes decoded
\* little-endian as the size and then the content; the payload's length is
\* the drawn size, so it lies in 0..65535, and both extremes are produced.
C4_PayloadSize ==
    /\ pc \in { "random_data", "hash_data", "to_bytes", "print_entry", "join",
                "write" } =>
          /\ Len(sizeBytes) = 2
          /\ size = sizeBytes[1] + 256 * sizeBytes[2]
          /\ size \in 0..65535
    /\ pc \in { "hash_data", "to_bytes", "print_entry", "join", "write" } =>
          /\ Len(reads) = 2 * (i + 1)
          /\ reads[Len(reads) - 1] = 2
          /\ reads[Len(reads)] = size
          /\ Len(d) = size
    /\ \A k \in 1..Len(payloads) : Len(payloads[k]) \in 0..65535

C4_Witness ==
    /\ pc = "hash_data"
    /\ \E k \in 1..Len(payloads) : Len(payloads[k]) = 0
    /\ sizeBytes = << 255, 255 >>
    /\ Len(d) = 65535
    /\ reads = << 2, 0, 2, 65535 >>

\* C5: if a file already exists at the target path when the program starts,
\* the run fails at open before any generation: no entropy is read, no record
\* is encoded, no line is printed, and the file is left as it was.
C5_ExistingFileUntouched ==
    file0.exists =>
        /\ pc \in { "open", "aborted" }
        /\ pc = "aborted" => exc = "FileExistsError"
        /\ file = file0
        /\ fp = "none"
        /\ reads = <<>>
        /\ buf = <<>>
        /\ payloads = <<>>
        /\ stdout = <<>>

C5_Witness ==
    /\ exc = "FileExistsError"
    /\ pc = "aborted"
    /\ file0.data = << 1, 2, 3 >>
    /\ file = file0

\* C6: the file is opened exactly once and is closed in every terminal state
\* of the run: after all N iterations completed, and after an abort caused by
\* an entropy failure or a write failure.
C6_ClosedAtEnd ==
    (pc \in { "done", "aborted" } /\ exc # "FileExistsError") => fp = "closed"

\* C7: if the entropy source fails in either read of iteration i, the run
\* aborts at once without retry and no partial record is written: the file
\* holds exactly the i records of the earlier iterations, total is what it was
\* when the iteration began, and nothing changes afterwards.
C7_AbortState ==
    exc = "OSError_getrandom" =>
        /\ pc = "aborted"
        /\ Len(payloads) = i
        /\ file.data = ConcatRecords(payloads)
        /\ ParseAll(file.data).records = Triples(payloads)
        /\ ParseAll(file.data).leftover = <<>>
        /\ total = SumSizes(payloads)
        /\ Len(stdout) = i
        /\ Len(reads) \in { 2 * i, 2 * i + 1 }

C7_EntropyFailure ==
    /\ []C7_AbortState
    /\ [][ /\ (exc = "none" /\ exc' = "OSError_getrandom") =>
                /\ pc \in { "random_size", "random_data" }
                /\ pc' = "aborted"
                /\ file' = file
                /\ total' = total
                /\ reads' = reads
           /\ exc = "OSError_getrandom" => vars' = vars ]_vars

C7_Witness ==
    /\ exc = "OSError_getrandom"
    /\ i = 1
    /\ Len(reads) = 3
    /\ file.data = RecordOf(payloads[1])
    /\ Len(payloads[1]) = 258

\* C8: if appending the record of iteration i fails, the failure ends the
\* run at once: no later iteration runs, the total line is not printed,
\* nothing is retried or rolled back, and the records appended by the earlier
\* iterations remain at the start of the file unchanged.
C8_AbortState ==
    exc = "OSError_write" =>
        /\ pc = "aborted"
        /\ Len(payloads) = i
        /\ range_next = i + 1
        /\ Len(reads) = 2 * (i + 1)
        /\ Len(stdout) = i + 1
        /\ \A k \in 1..Len(stdout) : Len(stdout[k]) = 2
        /\ total = SumSizes(payloads)
        /\ Len(file.data) >= SumSizes(payloads)
        /\ Len(file.data) < SumSizes(payloads) + Len(buf)
        /\ SubSeq(file.data, 1, SumSizes(payloads)) = ConcatRecords(payloads)
        /\ SubSeq(file.data, SumSizes(payloads) + 1, Len(file.data))
             = SubSeq(buf, 1, Len(file.data) - SumSizes(payloads))

C9_RoundTrip ==
    pc = "write" =>
        LET r == ParseRecord(buf) IN
        /\ r.ok
        /\ r.rest = <<>>
        /\ r.payload = d
        /\ join(<< hash_data(r.payload), to_bytes(Len(r.payload), LenSize),
                   r.payload >>) = buf

C9_Witness ==
    /\ pc = "write"
    /\ Len(buf) = 296
    /\ ParseRecord(buf).ok
    /\ ParseRecord(buf).length = 258

\* C10: the driver is a bounded counter loop: every iteration generates the
\* payload, encodes the record, appends it and then advances i by exactly 1;
\* a run in which nothing fails reaches Done after exactly N iterations with
\* exactly N records appended, and nothing is generated or appended after
\* Done.
StepOrder ==
    { << "open", "total" >>, << "open", "aborted" >>, << "total", "for" >>,
      << "for", "random_size" >>, << "for", "print_total" >>,
      << "random_size", "random_data" >>, << "random_size", "aborted" >>,
      << "random_data", "hash_data" >>, << "random_data", "aborted" >>,
      << "hash_data", "to_bytes" >>, << "to_bytes", "print_entry" >>,
      << "print_entry", "join" >>, << "join", "write" >>,
      << "write", "for" >>, << "write", "aborted" >>,
      << "print_total", "done" >> }

C10_DoneState ==
    pc \in { "print_total", "done" } =>
        /\ exc = "none"
        /\ range_next = N
        /\ i = N - 1
        /\ Len(payloads) = N
        /\ Len(reads) = 2 * N
        /\ Len(file.data) = SumSizes(payloads)

C10_BoundedLoop ==
    /\ []C10_DoneState
    /\ [][ /\ << pc, pc' >> \in StepOrder
           /\ i' # i => (i' = i + 1 /\ pc = "for" /\ pc' = "random_size")
           /\ range_next' # range_next =>
                (range_next' = range_next + 1 /\ i' # i /\ range_next < N)
           /\ payloads' # payloads =>
                (pc = "write" /\ pc' = "for" /\ Len(payloads') = i + 1)
           /\ pc # "done" ]_vars
    /\ <>(pc = "done" \/ exc # "none")

C10_Witness ==
    /\ pc = "done"
    /\ range_next = N
    /\ Len(payloads) = N
    /\ Len(stdout) = N + 1

====
